---------------------------- MODULE Spec2Model ----------------------------
(***************************************************************************)
(* nano-socket: the server (NanoSocket), its connections                   *)
(* (NanoSocketConnection), the room directory and the middleware chain.    *)
(*                                                                         *)
(* The transport (uWebSockets) is the environment.  Its channel offers     *)
(* getBufferedAmount(), send() (which may throw) and close(); closing a    *)
(* channel makes the transport run the server's close callback             *)
(* (setupRoutes, close: => handleDisconnection) before close() returns.    *)
(* Connection ids are the creation indices 1, 2, ..., so the insertion     *)
(* order of the registry Map is the order of the sequence `connections`.   *)
(***************************************************************************)
EXTENDS Integers, Sequences, FiniteSets, TLC

\* ------------------------------------------------------------- bounds
MaxConns == 2
NumRooms == 2
MaxMiddlewares == 2
MaxHandlers == 3
MaxCloseCalls == 2
MaxSockets == 3
MaxMessages == 2

Ids == 1..MaxConns
RoomNames == 1..NumRooms
MwNames == {"auth", "log"}
Handlers == {"hOk", "hThrow"}

\* ------------------------------------------------------------- event names
\* Event names are sequences of characters.
EvChat == <<"c", "h", "a", "t">>
EvConnect == <<"c", "o", "n", "n", "e", "c", "t">>
EvDisconnect == <<"d", "i", "s", "c", "o", "n", "n", "e", "c", "t">>
EvError == <<"e", "r", "r", "o", "r">>
EvConnecting == <<"c", "o", "n", "n", "e", "c", "t", "i", "n", "g">>
EvReconnecting == <<"r", "e", "c", "o", "n", "n", "e", "c", "t", "i", "n", "g">>
EvReconnectFailed ==
    <<"r", "e", "c", "o", "n", "n", "e", "c", "t", "_", "f", "a", "i", "l", "e", "d">>

reservedEvents ==
    {EvConnect, EvDisconnect, EvError, EvConnecting, EvReconnecting, EvReconnectFailed}

\* isValidEventName without the test of the first character.
isValidEventNameAnyStart(event) ==
    /\ Len(event) # 0
    /\ \A i \in 1..Len(event) : event[i] # "NUL"
    /\ event \notin reservedEvents

\* isValidEventName(event); "NUL" stands for the character \0.
isValidEventName(event) ==
    /\ Len(event) # 0
    /\ event[1] # "$"
    /\ \A i \in 1..Len(event) : event[i] # "NUL"
    /\ event \notin reservedEvents

\* ------------------------------------------------------------- state
VARIABLES
    listenSocket,    \* NanoSocket.listenSocket: TRUE when a listen token is held
    maxBackpressure, \* NanoSocket.options.maxBackpressure
    middlewares,     \* NanoSocket.middlewares, in registration order
    connections,     \* NanoSocket.connections: registered ids, in insertion order
    rooms,           \* NanoSocket.rooms: room name -> member ids, in insertion order
    created,         \* number of NanoSocketConnection objects constructed so far
    wsOpen,          \* per connection: its transport channel is open
    connRooms,       \* NanoSocketConnection.rooms, per connection
    eventHandlers,   \* NanoSocketConnection.eventHandlers, per connection
    listeners,       \* the EventEmitter listener table of each connection
    closeCalls,      \* per connection: calls of its channel's close(), counted up to MaxCloseCalls
    chain,           \* per connection: position of handleConnection
    mwLog,           \* per connection: the middlewares invoked for it, in order
    mwDone,          \* per connection: how many of them called proceed() without error
    serverLog,       \* per connection: server notifications emitted about it, in order
    lastOp,          \* what the last operation did (sends, local notifications, ...)
    state,           \* NanoSocketClient.state
    ws,              \* NanoSocketClient.ws: an index of socks, 0 for null
    socks,           \* the WebSocket objects the client constructed, in order
    reconnection,    \* NanoSocketClient.options.reconnection
    reconnectionAttempts, \* NanoSocketClient.options.reconnectionAttempts
    reconnectionDelay,    \* NanoSocketClient.options.reconnectionDelay
    reconnectAttempts,    \* NanoSocketClient.reconnectAttempts
    reconnectTimer,  \* NanoSocketClient.reconnectTimer: an index of timers, 0 for null
    timers,          \* the backoff timers set so far: delay, and whether still pending
    messageQueue,    \* NanoSocketClient.messageQueue
    emitted,         \* number of envelopes the application emitted so far
    sent,            \* <<socket, envelope>> of every ws.send() call, in order
    notified,        \* attempt numbers of the 'reconnecting' notifications delivered
    clientOp,        \* what the last client operation did
    codec            \* what the last call of the envelope codec was given and returned

serverVars == <<listenSocket, maxBackpressure, middlewares, connections, rooms>>
connVars == <<created, wsOpen, connRooms, eventHandlers, listeners, closeCalls>>
chainVars == <<chain, mwLog, mwDone>>
clientVars == <<state, ws, socks, reconnection, reconnectionAttempts, reconnectionDelay,
                reconnectAttempts, reconnectTimer, timers, messageQueue, emitted, sent,
                notified, clientOp>>
vars == <<serverVars, connVars, chainVars, serverLog, lastOp, clientVars, codec>>

\* ------------------------------------------------------------- helpers
\* Set.delete / Map.delete on an insertion-ordered collection.
Remove(s, x) == SelectSeq(s, LAMBDA y : y # x)

Contains(s, x) == \E i \in 1..Len(s) : s[i] = x

Range(s) == {s[i] : i \in 1..Len(s)}

\* Set.add: an element already present keeps its place.
Add(s, x) == IF Contains(s, x) THEN s ELSE Append(s, x)

Restrict(f, S) == [x \in S |-> f[x]]

HandlerEvents == {EvChat, EvError}

NoHandlers == [e \in HandlerEvents |-> <<>>]

\* The record every operation leaves in lastOp.
NoOp ==
    [op |-> "none", conn |-> 0, room |-> 0, event |-> <<>>,
     local |-> <<>>,      \* <<connection, notification>> emitted on connections' own emitters
     wsClose |-> <<>>,    \* connections whose channel.close() was called
     server |-> <<>>,     \* server notifications not about one connection
     tried |-> <<>>,      \* connections whose channel.send() was called
     sent |-> <<>>,       \* connections whose channel.send() was called and returned
     errors |-> <<>>,     \* <<connection, kind>> of each 'error' emitted on a connection's emitter
     threw |-> FALSE,    \* the operation ended by throwing to its caller
     buffered |-> <<>>,   \* getBufferedAmount() of each channel during the operation
     failing |-> {},      \* connections whose channel.send() throws during the operation
     invoked |-> <<>>,    \* handlers invoked, in order
     order |-> <<>>]      \* the steps of a teardown, in the order taken

\* ------------------------------------------------------------- room directory
\* NanoSocket.joinRoom(socketId, roomName)
joinRoom(rms, socketId, roomName) ==
    IF roomName \in DOMAIN rms
    THEN [rms EXCEPT ![roomName] = Add(@, socketId)]
    ELSE [r \in DOMAIN rms \cup {roomName} |->
            IF r = roomName THEN <<socketId>> ELSE rms[r]]

\* leaveRoom without the deletion of a room left empty.
leaveRoomKeepsEmpty(rms, socketId, roomName) ==
    IF roomName \in DOMAIN rms
    THEN [rms EXCEPT ![roomName] = Remove(@, socketId)]
    ELSE rms

\* NanoSocket.leaveRoom(socketId, roomName)
leaveRoom(rms, socketId, roomName) ==
    IF roomName \in DOMAIN rms
    THEN LET sockets == Remove(rms[roomName], socketId)
         IN IF Len(sockets) = 0
            THEN Restrict(rms, DOMAIN rms \ {roomName})
            ELSE [rms EXCEPT ![roomName] = sockets]
    ELSE rms

\* The loop of NanoSocketConnection.disconnect over its own rooms.
RECURSIVE leaveRooms(_, _, _)
leaveRooms(rms, socketId, names) ==
    IF names = {} THEN rms
    ELSE LET r == CHOOSE x \in names : TRUE
         IN leaveRooms(leaveRoom(rms, socketId, r), socketId, names \ {r})

\* removeConnection without its second loop: emptied rooms stay in the directory.
stripRoomsKeepsEmpty(rms, socketId) ==
    [r \in DOMAIN rms |-> Remove(rms[r], socketId)]

\* The two loops of NanoSocket.removeConnection over the directory.
stripRooms(rms, socketId) ==
    LET stripped == [r \in DOMAIN rms |-> Remove(rms[r], socketId)]
    IN Restrict(stripped, {r \in DOMAIN rms : Len(stripped[r]) # 0})

\* ------------------------------------------------------------- teardown
\* The operations below take and return the record S of the fields they touch,
\* so that a handler that calls several of them is one action.
Cur ==
    [connections |-> connections, rooms |-> rooms, wsOpen |-> wsOpen,
     connRooms |-> connRooms, listeners |-> listeners, serverLog |-> serverLog,
     closeCalls |-> closeCalls, local |-> <<>>, wsClose |-> <<>>, order |-> <<>>]

\* NanoSocket.removeConnection(socketId)
removeConnection(S, socketId) ==
    [S EXCEPT !.connections = Remove(@, socketId),
              !.rooms = stripRooms(@, socketId)]

\* NanoSocket.handleDisconnection(ws, code, message), ws the channel of `id`
handleDisconnection(S, id) ==
    IF Contains(S.connections, id)
    THEN LET T == removeConnection(S, id)
         IN [T EXCEPT !.serverLog[id] = Append(@, "disconnect")]
    ELSE S

\* channel.close(): the transport closes the channel and runs the close callback.
wsClose(S, id) ==
    LET T == [S EXCEPT !.wsClose = Append(@, id),
                       !.closeCalls[id] = IF @ < MaxCloseCalls THEN @ + 1 ELSE @,
                       !.order = Append(@, "close")]
    IN IF T.wsOpen[id]
       THEN handleDisconnection([T EXCEPT !.wsOpen[id] = FALSE], id)
       ELSE T

\* NanoSocketConnection.disconnect()
disconnect(S, id) ==
    LET A == [S EXCEPT !.rooms = leaveRooms(@, id, S.connRooms[id]),
                       !.connRooms[id] = {},
                       !.order = Append(@, "leaveRooms")]
        B == wsClose(A, id)
    IN [B EXCEPT !.local = Append(@, <<id, "disconnect">>),
                 !.listeners[id] = NoHandlers,
                 !.order = @ \o <<"disconnect", "removeAllListeners">>]

\* The loop of NanoSocket.close over connections.values().
RECURSIVE disconnectAll(_, _)
disconnectAll(S, ids) ==
    IF ids = <<>> THEN S
    ELSE disconnectAll(disconnect(S, Head(ids)), Tail(ids))

\* close leaving the room directory as the disconnects left it.
closeKeepsRooms(S) ==
    LET T == disconnectAll(S, S.connections)
    IN [T EXCEPT !.connections = <<>>]

\* NanoSocket.close(), after the listen socket is released
close(S) ==
    LET T == disconnectAll(S, S.connections)
    IN [T EXCEPT !.connections = <<>>, !.rooms = <<>>]

\* The next state holds the fields of S.
Becomes(S) ==
    /\ connections' = S.connections
    /\ rooms' = S.rooms
    /\ wsOpen' = S.wsOpen
    /\ connRooms' = S.connRooms
    /\ listeners' = S.listeners
    /\ closeCalls' = S.closeCalls
    /\ serverLog' = S.serverLog

\* ------------------------------------------------------------- server actions
\* listen storing a listen socket whatever the transport answered.
ListenAlwaysListening(token) ==
    /\ listenSocket' = TRUE
    /\ lastOp' = [NoOp EXCEPT !.op = "listen",
                              !.server = IF token THEN <<"listening">> ELSE <<"error">>,
                              !.threw = ~token]
    /\ UNCHANGED <<maxBackpressure, middlewares, connections, rooms,
                   connVars, chainVars, serverLog>>
    /\ UNCHANGED <<clientVars, codec>>

\* NanoSocket.listen(port, host): the transport reports a token or none.
Listen(token) ==
    /\ listenSocket' = (IF token THEN TRUE ELSE listenSocket)
    /\ lastOp' = [NoOp EXCEPT !.op = "listen",
                              !.server = IF token THEN <<"listening">> ELSE <<"error">>,
                              !.threw = ~token]
    /\ UNCHANGED <<maxBackpressure, middlewares, connections, rooms,
                   connVars, chainVars, serverLog>>
    /\ UNCHANGED <<clientVars, codec>>

\* NanoSocket.use(middleware)
Use(middleware) ==
    /\ Len(middlewares) < MaxMiddlewares
    /\ middlewares' = Append(middlewares, middleware)
    /\ lastOp' = [NoOp EXCEPT !.op = "use"]
    /\ UNCHANGED <<listenSocket, maxBackpressure, connections, rooms,
                   connVars, chainVars, serverLog>>
    /\ UNCHANGED <<clientVars, codec>>

\* NanoSocket.handleConnection(ws) up to its first suspension: the connection is
\* constructed and registered, then runMiddlewares invokes the first middleware;
\* with no middleware the chain is complete and 'connection' is emitted.
HandleConnection ==
    /\ listenSocket
    /\ created < MaxConns
    /\ LET id == created + 1 IN
       /\ created' = id
       /\ wsOpen' = [wsOpen EXCEPT ![id] = TRUE]
       /\ connections' = Append(connections, id)
       /\ IF Len(middlewares) = 0
          THEN /\ chain' = [chain EXCEPT ![id] = "announced"]
               /\ serverLog' = [serverLog EXCEPT ![id] = Append(@, "connection")]
               /\ mwLog' = mwLog
          ELSE /\ chain' = [chain EXCEPT ![id] = "pending"]
               /\ mwLog' = [mwLog EXCEPT ![id] = <<middlewares[1]>>]
               /\ serverLog' = serverLog
       /\ lastOp' = [NoOp EXCEPT !.op = "open", !.conn = id]
    /\ UNCHANGED <<listenSocket, maxBackpressure, middlewares, rooms,
                   connRooms, eventHandlers, listeners, closeCalls, mwDone>>
    /\ UNCHANGED <<clientVars, codec>>

\* ProceedOk walking the middleware array from its far end.
ProceedOkBackwards(id) ==
    /\ chain[id] = "pending"
    /\ mwDone' = [mwDone EXCEPT ![id] = @ + 1]
    /\ IF Len(mwLog[id]) < Len(middlewares)
       THEN /\ mwLog' = [mwLog EXCEPT
                           ![id] = Append(@, middlewares[Len(middlewares) - Len(@)])]
            /\ UNCHANGED <<chain, serverLog>>
       ELSE /\ chain' = [chain EXCEPT ![id] = "announced"]
            /\ serverLog' = [serverLog EXCEPT ![id] = Append(@, "connection")]
            /\ mwLog' = mwLog
    /\ lastOp' = [NoOp EXCEPT !.op = "proceed", !.conn = id]
    /\ UNCHANGED <<serverVars, connVars>>
    /\ UNCHANGED <<clientVars, codec>>

\* The pending middleware of connection id calls proceed(): runMiddlewares goes on
\* to the next middleware of the array, or handleConnection emits 'connection'.
ProceedOk(id) ==
    /\ chain[id] = "pending"
    /\ mwDone' = [mwDone EXCEPT ![id] = @ + 1]
    /\ IF Len(mwLog[id]) < Len(middlewares)
       THEN /\ mwLog' = [mwLog EXCEPT ![id] = Append(@, middlewares[Len(@) + 1])]
            /\ UNCHANGED <<chain, serverLog>>
       ELSE /\ chain' = [chain EXCEPT ![id] = "announced"]
            /\ serverLog' = [serverLog EXCEPT ![id] = Append(@, "connection")]
            /\ mwLog' = mwLog
    /\ lastOp' = [NoOp EXCEPT !.op = "proceed", !.conn = id]
    /\ UNCHANGED <<serverVars, connVars>>
    /\ UNCHANGED <<clientVars, codec>>

\* ProceedErr without the call of connection.disconnect().
ProceedErrKeepsChannel(id) ==
    /\ chain[id] = "pending"
    /\ chain' = [chain EXCEPT ![id] = "aborted"]
    /\ serverLog' = [serverLog EXCEPT ![id] = Append(@, "error")]
    /\ lastOp' = [NoOp EXCEPT !.op = "abort", !.conn = id]
    /\ UNCHANGED <<serverVars, connVars, mwLog, mwDone>>
    /\ UNCHANGED <<clientVars, codec>>

\* The pending middleware of connection id calls proceed(err): runMiddlewares
\* rejects and handleConnection's catch disconnects and emits 'error'.
ProceedErr(id) ==
    /\ chain[id] = "pending"
    /\ chain' = [chain EXCEPT ![id] = "aborted"]
    /\ LET S == disconnect(Cur, id)
           T == [S EXCEPT !.serverLog[id] = Append(@, "error")]
       IN /\ Becomes(T)
          /\ lastOp' = [NoOp EXCEPT !.op = "abort", !.conn = id,
                                    !.local = T.local, !.wsClose = T.wsClose]
    /\ UNCHANGED <<listenSocket, maxBackpressure, middlewares, created,
                   eventHandlers, mwLog, mwDone>>
    /\ UNCHANGED <<clientVars, codec>>

\* The peer closes the channel of connection id: the transport runs the close callback.
PeerClose(id) ==
    /\ wsOpen[id]
    /\ LET S == handleDisconnection([Cur EXCEPT !.wsOpen[id] = FALSE], id)
       IN /\ Becomes(S)
          /\ lastOp' = [NoOp EXCEPT !.op = "peerClose", !.conn = id, !.local = S.local]
    /\ UNCHANGED <<listenSocket, maxBackpressure, middlewares, created,
                   eventHandlers, chainVars>>
    /\ UNCHANGED <<clientVars, codec>>

\* NanoSocket.close()
Close ==
    /\ listenSocket' = FALSE
    /\ LET S == close(Cur)
       IN /\ Becomes(S)
          /\ lastOp' = [NoOp EXCEPT !.op = "close", !.local = S.local,
                                    !.wsClose = S.wsClose, !.server = <<"close">>]
    /\ UNCHANGED <<maxBackpressure, middlewares, created, eventHandlers, chainVars>>
    /\ UNCHANGED <<clientVars, codec>>

\* ------------------------------------------------------------- connection actions
\* join without the membership test: every call adds and notifies.
JoinUnguarded(id, room) ==
    /\ id <= created
    /\ connRooms' = [connRooms EXCEPT ![id] = @ \cup {room}]
    /\ rooms' = joinRoom(rooms, id, room)
    /\ lastOp' = [NoOp EXCEPT !.op = "join", !.conn = id, !.room = room,
                              !.local = <<<<id, "join">>>>]
    /\ UNCHANGED <<listenSocket, maxBackpressure, middlewares, connections,
                   created, wsOpen, eventHandlers, listeners, closeCalls,
                   chainVars, serverLog>>
    /\ UNCHANGED <<clientVars, codec>>

\* NanoSocketConnection.join(room), on any connection object constructed so far
Join(id, room) ==
    /\ id <= created
    /\ IF room \notin connRooms[id]
       THEN /\ connRooms' = [connRooms EXCEPT ![id] = @ \cup {room}]
            /\ rooms' = joinRoom(rooms, id, room)
            /\ lastOp' = [NoOp EXCEPT !.op = "join", !.conn = id, !.room = room,
                                      !.local = <<<<id, "join">>>>]
       ELSE /\ UNCHANGED <<connRooms, rooms>>
            /\ lastOp' = [NoOp EXCEPT !.op = "join", !.conn = id, !.room = room]
    /\ UNCHANGED <<listenSocket, maxBackpressure, middlewares, connections,
                   created, wsOpen, eventHandlers, listeners, closeCalls,
                   chainVars, serverLog>>
    /\ UNCHANGED <<clientVars, codec>>

\* leave that forgets the room locally without telling the directory.
LeaveLocalOnly(id, room) ==
    /\ id <= created
    /\ IF room \in connRooms[id]
       THEN /\ connRooms' = [connRooms EXCEPT ![id] = @ \ {room}]
            /\ rooms' = rooms
            /\ lastOp' = [NoOp EXCEPT !.op = "leave", !.conn = id, !.room = room,
                                      !.local = <<<<id, "leave">>>>]
       ELSE /\ UNCHANGED <<connRooms, rooms>>
            /\ lastOp' = [NoOp EXCEPT !.op = "leave", !.conn = id, !.room = room]
    /\ UNCHANGED <<listenSocket, maxBackpressure, middlewares, connections,
                   created, wsOpen, eventHandlers, listeners, closeCalls,
                   chainVars, serverLog>>
    /\ UNCHANGED <<clientVars, codec>>

\* NanoSocketConnection.leave(room)
Leave(id, room) ==
    /\ id <= created
    /\ IF room \in connRooms[id]
       THEN /\ connRooms' = [connRooms EXCEPT ![id] = @ \ {room}]
            /\ rooms' = leaveRoom(rooms, id, room)
            /\ lastOp' = [NoOp EXCEPT !.op = "leave", !.conn = id, !.room = room,
                                      !.local = <<<<id, "leave">>>>]
       ELSE /\ UNCHANGED <<connRooms, rooms>>
            /\ lastOp' = [NoOp EXCEPT !.op = "leave", !.conn = id, !.room = room]
    /\ UNCHANGED <<listenSocket, maxBackpressure, middlewares, connections,
                   created, wsOpen, eventHandlers, listeners, closeCalls,
                   chainVars, serverLog>>
    /\ UNCHANGED <<clientVars, codec>>

\* NanoSocketConnection.disconnect()
Disconnect(id) ==
    /\ id <= created
    /\ LET S == disconnect(Cur, id)
       IN /\ Becomes(S)
          /\ lastOp' = [NoOp EXCEPT !.op = "disconnect", !.conn = id,
                                    !.local = S.local, !.wsClose = S.wsClose,
                                    !.order = S.order]
    /\ UNCHANGED <<listenSocket, maxBackpressure, middlewares, created,
                   eventHandlers, chainVars>>
    /\ UNCHANGED <<clientVars, codec>>

\* ------------------------------------------------------------- sending
SendBackpressureLimit == 65536

ThrowingHandlers == {"hThrow"}

\* What a send or a dispatch did: the channels whose send() was called, those
\* whose send() returned, the errors emitted on connections' emitters, the
\* handlers invoked, and whether it threw.
Quiet ==
    [tried |-> <<>>, sent |-> <<>>, errors |-> <<>>, invoked |-> <<>>, threw |-> FALSE]

\* EventEmitter.emit('error', e) on the emitter of connection id throws when there
\* is no 'error' listener, or when a listener throws.
errorEmitThrows(L, id) ==
    \/ Len(L[id][EvError]) = 0
    \/ \E i \in 1..Len(L[id][EvError]) : L[id][EvError][i] \in ThrowingHandlers

\* NanoSocketConnection.send(data), the channel holding `amount` buffered bytes
\* and its send() throwing iff `sendThrows`.
send(L, id, amount, sendThrows) ==
    IF amount < SendBackpressureLimit
    THEN IF ~sendThrows
         THEN [Quiet EXCEPT !.tried = <<id>>, !.sent = <<id>>]
         ELSE [Quiet EXCEPT !.tried = <<id>>,
                            !.errors = <<<<id, "TransportError">>>>,
                            !.threw = errorEmitThrows(L, id)]
    ELSE IF errorEmitThrows(L, id)
         THEN \* the emit in the try block throws, the catch block emits again
              [Quiet EXCEPT !.errors = <<<<id, "BackpressureExceeded">>,
                                         <<id, "Rethrown">>>>,
                            !.threw = TRUE]
         ELSE [Quiet EXCEPT !.errors = <<<<id, "BackpressureExceeded">>>>]

\* NanoSocketConnection.emit(event, ...args)
emit(L, id, event, amount, sendThrows) ==
    IF ~isValidEventName(event)
    THEN [Quiet EXCEPT !.threw = TRUE]
    ELSE send(L, id, amount, sendThrows)

\* The loop of NanoSocket.broadcast and of NanoSocket.broadcastToRoom over the
\* registered connections `ids`: a send that throws is handed to
\* connection.emit('error', error), and an exception of that call ends the loop.
RECURSIVE fanOut(_, _, _, _, _)
fanOut(L, ids, amounts, failing, ceiling) ==
    IF ids = <<>> THEN Quiet
    ELSE LET id == Head(ids)
             step == IF amounts[id] < ceiling
                     THEN IF id \in failing
                          THEN [emit(L, id, EvError, amounts[id], TRUE)
                                  EXCEPT !.tried = <<id>> \o @]
                          ELSE [Quiet EXCEPT !.tried = <<id>>, !.sent = <<id>>]
                     ELSE Quiet
         IN IF step.threw THEN step
            ELSE LET rest == fanOut(L, Tail(ids), amounts, failing, ceiling)
                 IN [rest EXCEPT !.tried = step.tried \o @,
                                 !.sent = step.sent \o @,
                                 !.errors = step.errors \o @]

\* NanoSocket.broadcast(event, ...args)
broadcast(L, event, amounts, failing) ==
    IF ~isValidEventName(event)
    THEN [Quiet EXCEPT !.threw = TRUE]
    ELSE fanOut(L, connections, amounts, failing, maxBackpressure)

\* NanoSocket.broadcastToRoom(roomName, event, ...args)
broadcastToRoom(L, roomName, event, amounts, failing) ==
    IF roomName \notin DOMAIN rooms \/ Len(rooms[roomName]) = 0
    THEN Quiet
    ELSE fanOut(L, SelectSeq(rooms[roomName], LAMBDA id : Contains(connections, id)),
                amounts, failing, maxBackpressure)

BufferedAmounts == {0, 1024, 65536}

EventInputs == {EvChat, EvError}

\* The channel conditions an operation may meet: a buffered amount for every open
\* channel (0 stands for the channels not consulted) and the channels whose send()
\* throws.
ChannelConditions ==
    {cond \in [amounts : [Ids -> BufferedAmounts], failing : SUBSET Ids] :
        /\ \A id \in Ids : ~wsOpen[id] => cond.amounts[id] = 0
        /\ cond.failing \subseteq {id \in Ids : wsOpen[id]}}

Broadcast(event, cond) ==
    /\ LET R == broadcast(listeners, event, cond.amounts, cond.failing)
       IN lastOp' = [NoOp EXCEPT !.op = "broadcast", !.event = event,
                                 !.buffered = cond.amounts, !.failing = cond.failing,
                                 !.tried = R.tried, !.sent = R.sent,
                                 !.errors = R.errors, !.threw = R.threw]
    /\ UNCHANGED <<serverVars, connVars, chainVars, serverLog>>
    /\ UNCHANGED <<clientVars, codec>>

BroadcastToRoom(roomName, event, cond) ==
    /\ LET R == broadcastToRoom(listeners, roomName, event, cond.amounts, cond.failing)
       IN lastOp' = [NoOp EXCEPT !.op = "broadcastToRoom", !.room = roomName,
                                 !.event = event,
                                 !.buffered = cond.amounts, !.failing = cond.failing,
                                 !.tried = R.tried, !.sent = R.sent,
                                 !.errors = R.errors, !.threw = R.threw]
    /\ UNCHANGED <<serverVars, connVars, chainVars, serverLog>>
    /\ UNCHANGED <<clientVars, codec>>

\* NanoSocketConnection.emit(event, ...args) on a connection whose channel is open
Emit(id, event, amount, sendThrows) ==
    /\ wsOpen[id]
    /\ LET R == emit(listeners, id, event, amount, sendThrows)
       IN lastOp' = [NoOp EXCEPT !.op = "emit", !.conn = id, !.event = event,
                                 !.buffered = [c \in Ids |-> IF c = id THEN amount ELSE 0],
                                 !.failing = IF sendThrows THEN {id} ELSE {},
                                 !.tried = R.tried, !.sent = R.sent,
                                 !.errors = R.errors, !.threw = R.threw]
    /\ UNCHANGED <<serverVars, connVars, chainVars, serverLog>>
    /\ UNCHANGED <<clientVars, codec>>

\* NanoSocketConnection.broadcast(event, ...args) on connection object id: the
\* call is handed to the server's broadcast.
ConnectionBroadcast(id, event, cond) ==
    /\ id <= created
    /\ LET R == broadcast(listeners, event, cond.amounts, cond.failing)
       IN lastOp' = [NoOp EXCEPT !.op = "connection.broadcast", !.conn = id,
                                 !.event = event,
                                 !.buffered = cond.amounts, !.failing = cond.failing,
                                 !.tried = R.tried, !.sent = R.sent,
                                 !.errors = R.errors, !.threw = R.threw]
    /\ UNCHANGED <<serverVars, connVars, chainVars, serverLog>>
    /\ UNCHANGED <<clientVars, codec>>

\* ------------------------------------------------------------- handlers
\* The number of handlers held by the table H, over all connections and events.
Registered(H) ==
    LET lens == [p \in Ids \X HandlerEvents |-> Len(H[p[1]][p[2]])]
        RECURSIVE Sum(_)
        Sum(ps) == IF ps = {} THEN 0
                   ELSE LET p == CHOOSE x \in ps : TRUE IN lens[p] + Sum(ps \ {p})
    IN Sum(Ids \X HandlerEvents)

\* NanoSocketConnection.on(event, handler)
On(id, event, handler) ==
    /\ id <= created
    /\ Registered(eventHandlers) < MaxHandlers
    /\ eventHandlers' = [eventHandlers EXCEPT ![id][event] = Append(@, handler)]
    /\ listeners' = [listeners EXCEPT ![id][event] = Append(@, handler)]
    /\ lastOp' = [NoOp EXCEPT !.op = "on", !.conn = id, !.event = event]
    /\ UNCHANGED <<serverVars, created, wsOpen, connRooms, closeCalls,
                   chainVars, serverLog>>
    /\ UNCHANGED <<clientVars, codec>>

\* EventEmitter.emit(event, ...data): the listeners in order, up to the first
\* one that throws.
RECURSIVE superEmit(_)
superEmit(ls) ==
    IF ls = <<>> THEN Quiet
    ELSE IF Head(ls) \in ThrowingHandlers
         THEN [Quiet EXCEPT !.invoked = <<Head(ls)>>, !.threw = TRUE]
         ELSE LET rest == superEmit(Tail(ls))
              IN [rest EXCEPT !.invoked = <<Head(ls)>> \o @]

\* handlers.forEach(handler => try handler(...) catch emit 'error') of
\* NanoSocketConnection.handleMessage
RECURSIVE forEachHandler(_, _, _)
forEachHandler(L, id, hs) ==
    IF hs = <<>> THEN Quiet
    ELSE IF Head(hs) \in ThrowingHandlers /\ errorEmitThrows(L, id)
         THEN [Quiet EXCEPT !.invoked = <<Head(hs)>>,
                            !.errors = <<<<id, "HandlerError">>>>, !.threw = TRUE]
         ELSE LET rest == forEachHandler(L, id, Tail(hs))
              IN [rest EXCEPT !.invoked = <<Head(hs)>> \o @,
                              !.errors = (IF Head(hs) \in ThrowingHandlers
                                          THEN <<<<id, "HandlerError">>>>
                                          ELSE <<>>) \o @]

\* NanoSocketConnection.handleMessage(message)
handleMessage(L, H, id, event) ==
    LET first == superEmit(L[id][event])
    IN IF first.threw
       THEN [first EXCEPT !.errors = <<<<id, "HandlerError">>>>,
                          !.threw = errorEmitThrows(L, id)]
       ELSE LET second == forEachHandler(L, id, H[id][event])
            IN [second EXCEPT !.invoked = first.invoked \o @,
                              !.errors = IF second.threw
                                         THEN @ \o <<<<id, "Rethrown">>>>
                                         ELSE @]

\* NanoSocket.handleMessage(ws, message, opCode) for a non-empty payload that
\* decodes to an envelope with a valid event, on the open channel of `id`.
HandleMessage(id, event) ==
    /\ wsOpen[id]
    /\ isValidEventName(event)
    /\ IF Contains(connections, id)
       THEN LET R == handleMessage(listeners, eventHandlers, id, event)
                \* the catch block: connection.emit('error', error), then this.emit
                C == IF R.threw THEN emit(listeners, id, EvError, 0, FALSE) ELSE Quiet
            IN lastOp' = [NoOp EXCEPT !.op = "message", !.conn = id, !.event = event,
                                      !.invoked = R.invoked,
                                      !.errors = R.errors \o C.errors,
                                      !.tried = C.tried, !.sent = C.sent,
                                      !.server = IF R.threw /\ ~C.threw
                                                 THEN <<"error">> ELSE <<>>,
                                      !.threw = C.threw]
       ELSE lastOp' = [NoOp EXCEPT !.op = "message", !.conn = id, !.event = event]
    /\ UNCHANGED <<serverVars, connVars, chainVars, serverLog>>
    /\ UNCHANGED <<clientVars, codec>>

\* ------------------------------------------------------------- client
\* NanoSocketClient over the `ws` transport.  A WebSocket object is CONNECTING
\* when constructed; it opens, or its handshake fails ('error', then 'close' with
\* code 1006, in one turn of the event loop); close() on a CONNECTING socket
\* aborts the handshake, which then fails in the same way; an OPEN or CLOSING
\* socket closes with a code.  A socket delivers an event only to the callbacks
\* still attached to it.  The application has an 'error' listener, so
\* EventEmitter.emit('error') returns.
ConfiguredAttempts == {1, 2}

ConfiguredDelays == {0, 100}

DefaultReconnectionAttempts == 5

DefaultReconnectionDelay == 1000

NormalClosure == 1000

CloseCodes == {NormalClosure, 1006}

ClientEvents == {EvChat, EvError}

\* The names NanoSocketClient.emit hands to its own listeners.
localEvents == {EvConnect, EvDisconnect, EvError, EvConnecting, EvReconnecting}

\* new WebSocket(url) with the callbacks of connect() attached and its timeout set
NewSocket(viaTimer) ==
    [ready |-> "CONNECTING",
     handlers |-> TRUE,      \* onopen, onmessage, onclose, onerror are attached
     timeout |-> TRUE,       \* the connect timeout of this attempt is pending
     outcome |-> "pending",  \* the promise of the connect() call that made it
     viaTimer |-> viaTimer]  \* connect() was called by a backoff timer

\* The record every client operation leaves in clientOp.
NoClientOp ==
    [op |-> "none", sock |-> 0, code |-> 0, event |-> <<>>,
     handled |-> FALSE,       \* the socket's callbacks were attached and ran
     before |-> "disconnected",  \* state when the operation began
     attempts |-> 0,          \* reconnectAttempts when the operation began
     queued |-> <<>>,         \* messageQueue when the operation began
     sentBefore |-> 0,        \* number of ws.send() calls before the operation
     made |-> 0,              \* number of sockets constructed before the operation
     timersSet |-> 0,         \* number of backoff timers set before the operation
     local |-> <<>>,          \* notifications delivered to the client's listeners
     closed |-> <<>>,         \* <<socket, code>> of each ws.close() call
     threw |-> FALSE]         \* an exception left the operation or its promise handler

\* The client's fields as a record, with the effects of the running operation.
CurClient ==
    [state |-> state, ws |-> ws, socks |-> socks, reconnection |-> reconnection,
     reconnectionAttempts |-> reconnectionAttempts,
     reconnectionDelay |-> reconnectionDelay,
     reconnectAttempts |-> reconnectAttempts, reconnectTimer |-> reconnectTimer,
     timers |-> timers, messageQueue |-> messageQueue, sent |-> sent,
     notified |-> notified, local |-> <<>>, closed |-> <<>>, threw |-> FALSE]

\* clientEmit sending whenever the client holds a socket, whatever its state.
clientEmitWheneverSocket(C, event, envelope) ==
    IF event \in localEvents
    THEN [C EXCEPT !.local = Append(@, event)]
    ELSE IF ~isValidEventName(event)
         THEN [C EXCEPT !.threw = TRUE]
         ELSE IF C.ws # 0
              THEN [C EXCEPT !.sent = Append(@, <<C.ws, envelope>>)]
              ELSE [C EXCEPT !.messageQueue = Append(@, envelope)]

\* NanoSocketClient.emit(event, ...args), `envelope` naming the encoded message
clientEmit(C, event, envelope) ==
    IF event \in localEvents
    THEN [C EXCEPT !.local = Append(@, event)]
    ELSE IF ~isValidEventName(event)
         THEN [C EXCEPT !.threw = TRUE]
         ELSE IF C.state = "connected" /\ C.ws # 0
              THEN [C EXCEPT !.sent = Append(@, <<C.ws, envelope>>)]
              ELSE [C EXCEPT !.messageQueue = Append(@, envelope)]

\* attemptReconnection that does not count the attempt.
attemptReconnectionUncounted(C) ==
    LET n == C.reconnectAttempts + 1
        A == clientEmit([C EXCEPT !.state = "reconnecting"], EvReconnecting, 0)
    IN [A EXCEPT !.notified = Append(@, n),
                 !.timers = Append(@, [delay |-> C.reconnectionDelay * n, pending |-> TRUE]),
                 !.reconnectTimer = Len(C.timers) + 1]

\* attemptReconnection with the same delay before every attempt.
attemptReconnectionFlatDelay(C) ==
    LET n == C.reconnectAttempts + 1
        A == clientEmit([C EXCEPT !.state = "reconnecting", !.reconnectAttempts = n],
                        EvReconnecting, 0)
    IN [A EXCEPT !.notified = Append(@, n),
                 !.timers = Append(@, [delay |-> C.reconnectionDelay, pending |-> TRUE]),
                 !.reconnectTimer = Len(C.timers) + 1]

\* NanoSocketClient.attemptReconnection()
attemptReconnection(C) ==
    LET n == C.reconnectAttempts + 1
        A == clientEmit([C EXCEPT !.state = "reconnecting", !.reconnectAttempts = n],
                        EvReconnecting, 0)
    IN [A EXCEPT !.notified = Append(@, n),
                 !.timers = Append(@, [delay |-> C.reconnectionDelay * n, pending |-> TRUE]),
                 !.reconnectTimer = Len(C.timers) + 1]

\* clientHandleDisconnection reconnecting however many attempts were made.
clientHandleDisconnectionUnlimited(C, code) ==
    LET A == [C EXCEPT !.state = "disconnected",
                       !.socks = IF C.ws # 0 THEN [@ EXCEPT ![C.ws].handlers = FALSE] ELSE @,
                       !.ws = 0]
        B == clientEmit(A, EvDisconnect, 0)
    IN IF B.reconnection /\ code # NormalClosure
       THEN attemptReconnection(B)
       ELSE B

\* clientHandleDisconnection reconnecting whatever the close code.
clientHandleDisconnectionAnyCode(C, code) ==
    LET A == [C EXCEPT !.state = "disconnected",
                       !.socks = IF C.ws # 0 THEN [@ EXCEPT ![C.ws].handlers = FALSE] ELSE @,
                       !.ws = 0]
        B == clientEmit(A, EvDisconnect, 0)
    IN IF B.reconnection /\ B.reconnectAttempts < B.reconnectionAttempts
       THEN attemptReconnection(B)
       ELSE IF B.reconnectAttempts >= B.reconnectionAttempts
            THEN clientEmit(B, EvReconnectFailed, 0)
            ELSE B

\* NanoSocketClient.handleDisconnection(code, reason)
clientHandleDisconnection(C, code) ==
    LET A == [C EXCEPT !.state = "disconnected",
                       !.socks = IF C.ws # 0 THEN [@ EXCEPT ![C.ws].handlers = FALSE] ELSE @,
                       !.ws = 0]
        B == clientEmit(A, EvDisconnect, 0)
    IN IF B.reconnection /\ B.reconnectAttempts < B.reconnectionAttempts
          /\ code # NormalClosure
       THEN attemptReconnection(B)
       ELSE IF B.reconnectAttempts >= B.reconnectionAttempts
            THEN clientEmit(B, EvReconnectFailed, 0)
            ELSE B

\* The .catch() that attemptReconnection puts on the promise of its connect().
onRejected(C) ==
    IF C.reconnectAttempts >= C.reconnectionAttempts
    THEN clientEmit(C, EvReconnectFailed, 0)
    ELSE C

\* reject(error) of the connect() call that made socket k
reject(C, k) ==
    IF C.socks[k].outcome = "pending"
    THEN [C EXCEPT !.socks[k].outcome = "rejected"]
    ELSE C

\* The promise handlers run once the callback that rejected the promise of
\* socket k has returned: B is the client before the callback, C after it.
settle(B, C, k) ==
    IF C.socks[k].viaTimer /\ B.socks[k].outcome = "pending"
       /\ C.socks[k].outcome = "rejected"
    THEN onRejected(C)
    ELSE C

\* ws.close(code, reason) on socket k
socketClose(C, k, code) ==
    [C EXCEPT !.closed = Append(@, <<k, code>>),
              !.socks[k].ready = IF @ = "CONNECTING" THEN "ABORTING"
                                 ELSE IF @ = "OPEN" THEN "CLOSING" ELSE @]

\* NanoSocketClient.connect(); the WebSocket constructor throws iff ctorThrows
connect(C, ctorThrows, viaTimer) ==
    IF C.state \in {"connected", "connecting"}
    THEN C
    ELSE LET A == clientEmit([C EXCEPT !.state = "connecting"], EvConnecting, 0)
         IN IF ctorThrows
            THEN LET B == clientEmit([A EXCEPT !.state = "disconnected"], EvError, 0)
                 IN IF viaTimer THEN onRejected(B) ELSE B
            ELSE [A EXCEPT !.socks = Append(@, NewSocket(viaTimer)),
                           !.ws = Len(A.socks) + 1]

\* flushMessageQueue taking the newest envelope first.
RECURSIVE flushMessageQueueNewestFirst(_)
flushMessageQueueNewestFirst(C) ==
    IF Len(C.messageQueue) > 0 /\ C.ws # 0 /\ C.state = "connected"
    THEN flushMessageQueueNewestFirst(
             [C EXCEPT !.messageQueue = SubSeq(@, 1, Len(@) - 1),
                       !.sent = Append(@, <<C.ws, C.messageQueue[Len(C.messageQueue)]>>)])
    ELSE C

\* NanoSocketClient.flushMessageQueue()
RECURSIVE flushMessageQueue(_)
flushMessageQueue(C) ==
    IF Len(C.messageQueue) > 0 /\ C.ws # 0 /\ C.state = "connected"
    THEN flushMessageQueue([C EXCEPT !.messageQueue = Tail(@),
                                     !.sent = Append(@, <<C.ws, Head(C.messageQueue)>>)])
    ELSE C

\* ws.onopen of socket k; `envelope` is the envelope a 'connect' listener of the
\* application emits while it is notified, 0 when no listener emits.
onopen(C, k, envelope) ==
    LET A == clientEmit([C EXCEPT !.socks[k].timeout = FALSE,
                                  !.state = "connected",
                                  !.reconnectAttempts = 0], EvConnect, 0)
        L == IF envelope # 0 THEN clientEmit(A, EvChat, envelope) ELSE A
        B == flushMessageQueue(L)
    IN [B EXCEPT !.socks[k].outcome = IF @ = "pending" THEN "resolved" ELSE @]

\* ws.onerror of socket k
onerror(C, k) ==
    reject(clientEmit([C EXCEPT !.socks[k].timeout = FALSE], EvError, 0), k)

\* ws.onclose of socket k
onclose(C, k, code) ==
    clientHandleDisconnection([C EXCEPT !.socks[k].timeout = FALSE], code)

\* The connect timeout of socket k
ontimeout(C, k) ==
    LET A == [C EXCEPT !.socks[k].timeout = FALSE]
    IN IF A.ws # 0 /\ A.socks[A.ws].ready = "CONNECTING"
       THEN reject(clientEmit(socketClose(A, A.ws, 0), EvError, 0), k)
       ELSE A

\* NanoSocketClient.disconnect()
clientDisconnect(C) ==
    LET A == [C EXCEPT !.reconnection = FALSE]
        B == IF A.reconnectTimer # 0
             THEN [A EXCEPT !.timers[A.reconnectTimer].pending = FALSE,
                            !.reconnectTimer = 0]
             ELSE A
        D == IF B.ws # 0 THEN socketClose(B, B.ws, NormalClosure) ELSE B
    IN clientEmit([D EXCEPT !.state = "disconnected"], EvDisconnect, 0)

\* The next state holds the fields of C, and clientOp the record of operation op.
ClientBecomes(C, op) ==
    /\ state' = C.state
    /\ ws' = C.ws
    /\ socks' = C.socks
    /\ reconnection' = C.reconnection
    /\ reconnectAttempts' = C.reconnectAttempts
    /\ reconnectTimer' = C.reconnectTimer
    /\ timers' = C.timers
    /\ messageQueue' = C.messageQueue
    /\ sent' = C.sent
    /\ notified' = C.notified
    /\ clientOp' = [op EXCEPT !.before = state, !.attempts = reconnectAttempts,
                              !.queued = messageQueue, !.sentBefore = Len(sent),
                              !.made = Len(socks), !.timersSet = Len(timers),
                              !.local = C.local, !.closed = C.closed,
                              !.threw = C.threw]
    /\ UNCHANGED <<reconnectionAttempts, reconnectionDelay>>
    /\ UNCHANGED <<serverVars, connVars, chainVars, serverLog, lastOp, codec>>

\* The application calls connect().
ClientConnect(ctorThrows) ==
    /\ state \in {"connected", "connecting"} \/ Len(socks) < MaxSockets
    /\ ClientBecomes(connect(CurClient, ctorThrows, FALSE),
                     [NoClientOp EXCEPT !.op = "connect"])
    /\ emitted' = emitted

\* The application calls disconnect().
ClientDisconnect ==
    /\ ClientBecomes(clientDisconnect(CurClient), [NoClientOp EXCEPT !.op = "disconnect"])
    /\ emitted' = emitted

\* The application calls emit(event, ...args).
ClientEmit(event) ==
    /\ emitted < MaxMessages
    /\ ClientBecomes(clientEmit(CurClient, event, emitted + 1),
                     [NoClientOp EXCEPT !.op = "emit", !.event = event])
    /\ emitted' = IF event \notin localEvents /\ isValidEventName(event)
                  THEN emitted + 1 ELSE emitted

\* The handshake of socket k completes; a 'connect' listener emits an envelope
\* iff `listenerEmits`.
SocketOpens(k, listenerEmits) ==
    /\ k \in 1..Len(socks)
    /\ socks[k].ready = "CONNECTING"
    /\ listenerEmits => socks[k].handlers /\ emitted < MaxMessages
    /\ LET C == [CurClient EXCEPT !.socks[k].ready = "OPEN"]
           envelope == IF listenerEmits THEN emitted + 1 ELSE 0
       IN ClientBecomes(IF socks[k].handlers THEN onopen(C, k, envelope) ELSE C,
                        [NoClientOp EXCEPT !.op = "open", !.sock = k,
                                           !.event = IF listenerEmits THEN EvChat
                                                     ELSE <<>>,
                                           !.handled = socks[k].handlers])
    /\ emitted' = IF listenerEmits THEN emitted + 1 ELSE emitted

\* The handshake of socket k fails: 'error', then 'close' with code 1006.
ConnectFails(k) ==
    /\ k \in 1..Len(socks)
    /\ socks[k].ready \in {"CONNECTING", "ABORTING"}
    /\ LET C == [CurClient EXCEPT !.socks[k].ready = "CLOSED"]
           D == IF socks[k].handlers
                THEN LET E == onerror(C, k)
                         F == IF E.threw THEN E ELSE onclose(E, k, 1006)
                     IN settle(C, F, k)
                ELSE C
       IN ClientBecomes(D, [NoClientOp EXCEPT !.op = "connectFail", !.sock = k,
                                              !.code = 1006,
                                              !.handled = socks[k].handlers])
    /\ emitted' = emitted

\* Socket k, open or closing, closes with `code`.
SocketCloses(k, code) ==
    /\ k \in 1..Len(socks)
    /\ socks[k].ready \in {"OPEN", "CLOSING"}
    /\ LET C == [CurClient EXCEPT !.socks[k].ready = "CLOSED"]
       IN ClientBecomes(IF socks[k].handlers THEN onclose(C, k, code) ELSE C,
                        [NoClientOp EXCEPT !.op = "close", !.sock = k, !.code = code,
                                           !.handled = socks[k].handlers])
    /\ emitted' = emitted

\* The connect timeout of socket k elapses.
ConnectTimeout(k) ==
    /\ k \in 1..Len(socks)
    /\ socks[k].timeout
    /\ LET C == ontimeout(CurClient, k)
       IN ClientBecomes(settle(CurClient, C, k),
                        [NoClientOp EXCEPT !.op = "timeout", !.sock = k,
                                           !.handled = (C.closed # <<>>)])
    /\ emitted' = emitted

\* Backoff timer t elapses: connect().catch(...)
BackoffElapses(t, ctorThrows) ==
    /\ t \in 1..Len(timers)
    /\ timers[t].pending
    /\ state \in {"connected", "connecting"} \/ Len(socks) < MaxSockets
    /\ LET C == [CurClient EXCEPT !.timers[t].pending = FALSE]
       IN ClientBecomes(connect(C, ctorThrows, TRUE),
                        [NoClientOp EXCEPT !.op = "backoff", !.sock = t])
    /\ emitted' = emitted

\* The client after `new NanoSocketClient(url, options)` with the given options.
ClientConstructed(autoConnect, enabled, attempts, delay) ==
        LET fresh == [state |-> "disconnected", ws |-> 0, socks |-> <<>>,
                      reconnection |-> enabled,
                      reconnectionAttempts |->
                          IF attempts # 0 THEN attempts ELSE DefaultReconnectionAttempts,
                      reconnectionDelay |->
                          IF delay # 0 THEN delay ELSE DefaultReconnectionDelay,
                      reconnectAttempts |-> 0, reconnectTimer |-> 0, timers |-> <<>>,
                      messageQueue |-> <<>>, sent |-> <<>>, notified |-> <<>>,
                      local |-> <<>>, closed |-> <<>>, threw |-> FALSE]
            C == IF autoConnect THEN connect(fresh, FALSE, FALSE) ELSE fresh
        IN /\ state = C.state
           /\ ws = C.ws
           /\ socks = C.socks
           /\ reconnection = C.reconnection
           /\ reconnectionAttempts = C.reconnectionAttempts
           /\ reconnectionDelay = C.reconnectionDelay
           /\ reconnectAttempts = C.reconnectAttempts
           /\ reconnectTimer = C.reconnectTimer
           /\ timers = C.timers
           /\ messageQueue = C.messageQueue
           /\ emitted = 0
           /\ sent = C.sent
           /\ notified = C.notified
           /\ clientOp = NoClientOp

\* A client constructed with any of the configurations considered.
ClientInit ==
    \E autoConnect \in BOOLEAN, enabled \in BOOLEAN,
       attempts \in ConfiguredAttempts, delay \in ConfiguredDelays :
        ClientConstructed(autoConnect, enabled, attempts, delay)

\* ------------------------------------------------------------- envelope codec
\* JavaScript values are records tagged with their type. A string is the
\* characters v repeated rep times, so that a long string is a value of the model.
Undefined == [t |-> "undefined"]

Null == [t |-> "null"]

NaN == [t |-> "NaN"]

Num(n) == [t |-> "number", v |-> n]

Bool(b) == [t |-> "boolean", v |-> b]

Repeat(chars, n) == [t |-> "string", v |-> chars, rep |-> n]

Str(chars) == Repeat(chars, 1)

Arr(items) == [t |-> "array", v |-> items]

\* A Message object; a property that is not set is Undefined.
Message(event, data, id, timestamp) ==
    [t |-> "object", event |-> event, data |-> data, id |-> id, timestamp |-> timestamp]

\* The characters of a string value.
Chars(s) == [i \in 1..(Len(s.v) * s.rep) |-> s.v[((i - 1) % Len(s.v)) + 1]]

\* ToBoolean: the values the language treats as false.
Falsy(v) ==
    \/ v.t \in {"undefined", "null", "NaN"}
    \/ v.t = "number" /\ v.v = 0
    \/ v.t = "boolean" /\ ~v.v
    \/ v.t = "string" /\ Len(v.v) * v.rep = 0

\* Size of the characters inside a JSON string: a null character is written as
\* the six characters of its escape, every other character as itself, which is
\* one UTF-16 unit and, for the euro sign, three UTF-8 bytes.
RECURSIVE JsonChars(_, _)
JsonChars(chars, wide) ==
    IF chars = <<>> THEN 0
    ELSE (IF Head(chars) = "NUL" THEN 6
          ELSE IF wide /\ Head(chars) = "EURO" THEN 3 ELSE 1)
            + JsonChars(Tail(chars), wide)

RECURSIVE Digits(_)
Digits(n) == IF n < 10 THEN 1 ELSE 1 + Digits(n \div 10)

\* What JSON.stringify writes for a value: inside an array undefined and NaN are
\* written as null; a property holding undefined is left out, one holding NaN is
\* written as null.
RECURSIVE toJSON(_, _)
toJSON(v, inArray) ==
    CASE v.t = "undefined" -> IF inArray THEN Null ELSE Undefined
      [] v.t = "NaN" -> Null
      [] v.t = "array" -> Arr([i \in 1..Len(v.v) |-> toJSON(v.v[i], TRUE)])
      [] v.t = "object" ->
            Message(toJSON(v.event, FALSE), toJSON(v.data, FALSE),
                    toJSON(v.id, FALSE), toJSON(v.timestamp, FALSE))
      [] OTHER -> v

\* Length of the JSON text of a document, in UTF-16 units (wide = FALSE) or in
\* UTF-8 bytes (wide = TRUE).
RECURSIVE jsonLength(_, _)
RECURSIVE jsonItems(_, _)
jsonItems(items, wide) ==
    IF items = <<>> THEN 0
    ELSE jsonLength(Head(items), wide)
            + (IF Len(items) > 1 THEN 1 ELSE 0) + jsonItems(Tail(items), wide)

jsonLength(v, wide) ==
    LET property(name, value) ==
            IF value.t = "undefined" THEN 0 ELSE Len(name) + 4 + jsonLength(value, wide)
    IN CASE v.t = "null" -> 4
         [] v.t = "boolean" -> IF v.v THEN 4 ELSE 5
         [] v.t = "number" -> Digits(v.v)
         [] v.t = "string" -> 2 + v.rep * JsonChars(v.v, wide)
         [] v.t = "array" -> 2 + jsonItems(v.v, wide)
         [] v.t = "object" ->
                LET written == property("event", v.event) + property("data", v.data)
                             + property("id", v.id) + property("timestamp", v.timestamp)
                IN IF written = 0 THEN 2 ELSE 1 + written
         [] OTHER -> 0

\* A text: whether it is well-formed JSON, the document it denotes if it is, its
\* length in UTF-16 units and in UTF-8 bytes.
Text(doc) ==
    [wellFormed |-> TRUE, doc |-> doc,
     length |-> jsonLength(doc, FALSE), byteLength |-> jsonLength(doc, TRUE)]

Garbage(n) == [wellFormed |-> FALSE, doc |-> Undefined, length |-> n, byteLength |-> n]

Failed == [ok |-> FALSE, message |-> Undefined]

Returned(message) == [ok |-> TRUE, message |-> message]

\* JSON.stringify throws on a value that holds a cycle.
RECURSIVE Cyclic(_)
Cyclic(v) ==
    CASE v.t = "cyclic" -> TRUE
      [] v.t = "array" -> \E i \in 1..Len(v.v) : Cyclic(v.v[i])
      [] v.t = "object" -> Cyclic(v.data)
      [] OTHER -> FALSE

\* serializeMessage(message)
serializeMessage(message) ==
    IF Cyclic(message)
    THEN [ok |-> FALSE, text |-> Garbage(0)]
    ELSE [ok |-> TRUE, text |-> Text(toJSON(message, FALSE))]

MaxMessageLength == 1048576

\* deserializeMessage that wraps the data whatever it is.
deserializeMessageWrapsAll(data) ==
    LET parsed == data.doc
        event == IF parsed.t = "object" THEN parsed.event ELSE Undefined
    IN IF data.length > MaxMessageLength \/ ~data.wellFormed \/ parsed.t = "null"
       THEN Failed
       ELSE IF Falsy(event) \/ event.t # "string"
       THEN Failed
       ELSE IF ~isValidEventName(Chars(event))
       THEN Failed
       ELSE Returned([parsed EXCEPT !.data = Arr(<<@>>)])

\* deserializeMessage(data): the length test, JSON.parse, the tests of the event,
\* the normalisation of the data. Reading a property of null throws, reading one
\* of any other value that is not an object gives undefined.
deserializeMessage(data) ==
    LET parsed == data.doc
        event == IF parsed.t = "object" THEN parsed.event ELSE Undefined
    IN IF data.length > MaxMessageLength \/ ~data.wellFormed \/ parsed.t = "null"
       THEN Failed
       ELSE IF Falsy(event) \/ event.t # "string"
       THEN Failed
       ELSE IF ~isValidEventName(Chars(event))
       THEN Failed
       ELSE Returned([parsed EXCEPT !.data =
                        IF @.t = "array" THEN @
                        ELSE IF Falsy(@) THEN Arr(<<>>) ELSE Arr(<<@>>)])

NoCodec ==
    [op |-> "none", name |-> <<>>, message |-> Undefined, text |-> Garbage(0),
     result |-> Failed]

\* One call of serializeMessage.
Serialize(message) ==
    /\ LET out == serializeMessage(message)
       IN codec' = [NoCodec EXCEPT !.op = "serialize", !.message = message,
                                   !.text = out.text,
                                   !.result = [ok |-> out.ok, message |-> Undefined]]
    /\ UNCHANGED <<serverVars, connVars, chainVars, serverLog, lastOp, clientVars>>

\* One call of deserializeMessage.
Deserialize(data) ==
    /\ codec' = [NoCodec EXCEPT !.op = "deserialize", !.text = data,
                                !.result = deserializeMessage(data)]
    /\ UNCHANGED <<serverVars, connVars, chainVars, serverLog, lastOp, clientVars>>

\* A message serialized by one peer and deserialized by the other.
RoundTrip(message) ==
    /\ LET out == serializeMessage(message)
       IN /\ out.ok
          /\ codec' = [NoCodec EXCEPT !.op = "roundTrip", !.message = message,
                                      !.text = out.text,
                                      !.result = deserializeMessage(out.text)]
    /\ UNCHANGED <<serverVars, connVars, chainVars, serverLog, lastOp, clientVars>>

\* One call of isValidEventName.
IsValidEventName(name) ==
    /\ codec' = [NoCodec EXCEPT !.op = "isValidEventName", !.name = name,
                                !.result = [ok |-> isValidEventName(name),
                                            message |-> Undefined]]
    /\ UNCHANGED <<serverVars, connVars, chainVars, serverLog, lastOp, clientVars>>

\* ------------------------------------------------------------- codec inputs
MaxNameLen == 2

MaxItems == 2

\* The sequences of at most n elements of S.
SeqsUpTo(S, n) == UNION {[1..k -> S] : k \in 0..n}

\* Event names given to isValidEventName: every short string over a letter, the
\* sentinel and the null character, the reserved names, and names around them.
NameInputs ==
    SeqsUpTo({"a", "$", "NUL"}, MaxNameLen) \cup reservedEvents
        \cup {EvChat, EvConnect \o <<"s">>, <<"x">> \o EvError}

\* A string of exactly the greatest accepted length, and one of half as many
\* characters of three bytes each.
Long == Repeat(<<"a">>, MaxMessageLength)

Wide == Repeat(<<"EURO">>, MaxMessageLength \div 2)

JsonScalars ==
    {Null, Num(0), Num(7), Bool(FALSE), Bool(TRUE), Str(<<>>), Str(<<"a">>)}

\* What the data property of a received document may hold; Undefined when the
\* document has no such property.
DocData ==
    {Undefined, Long, Wide} \cup JsonScalars
        \cup {Arr(items) : items \in SeqsUpTo({Null, Num(0), Str(<<"a">>)}, MaxItems)}
        \cup {Arr(<<Long>>), Arr(<<Wide>>), Arr(<<Arr(<<>>)>>)}

\* The documents a text may denote: objects whose event is absent, not a string,
\* or a string, valid or not, and values that are not objects.
Docs ==
    {Message(event, data, id, timestamp) :
        event \in {Undefined, Null, Num(1), Str(<<>>), Str(EvChat), Str(EvError),
                   Str(<<"$", "a">>), Str(<<"a", "NUL">>)},
        data \in DocData,
        id \in {Undefined, Str(<<"i">>)}, timestamp \in {Undefined, Num(5)}}
        \cup {Null, Num(5), Str(EvChat), Arr(<<>>)}

\* The texts a peer may send.
Texts == {Text(doc) : doc \in Docs} \cup {Garbage(1), Garbage(MaxMessageLength + 1)}

\* The messages the program may be asked to serialize.
Messages ==
    {Message(Str(event), data, id, timestamp) :
        event \in {EvChat, EvError},
        data \in (DocData \ {Undefined})
                    \cup {Arr(<<Undefined>>), Arr(<<NaN>>), Arr(<<[t |-> "cyclic"]>>)},
        id \in {Undefined, Str(<<"i">>)}, timestamp \in {Undefined, Num(5)}}

\* ------------------------------------------------------------- undecodable payloads
\* Payloads deserializeMessage refuses: text that is not JSON, text that is too
\* long, a document with a reserved event, and a document with no event.
Undecodable ==
    {Garbage(1), Garbage(MaxMessageLength + 1),
     Text(Message(Str(EvError), Arr(<<>>), Undefined, Undefined)),
     Text(Message(Undefined, Arr(<<Num(0)>>), Undefined, Undefined))}

\* NanoSocket.handleMessage(ws, message, opCode) for a non-empty payload that
\* deserializeMessage refuses, on the open channel of `id`: the catch block calls
\* connection.emit('error', error), then this.emit('error', error).
HandleUndecodable(id, data) ==
    /\ wsOpen[id]
    /\ data.byteLength # 0
    /\ ~deserializeMessage(data).ok
    /\ LET C == IF Contains(connections, id)
                THEN emit(listeners, id, EvError, 0, FALSE) ELSE Quiet
       IN lastOp' = [NoOp EXCEPT !.op = "undecodable", !.conn = id,
                                 !.errors = C.errors,
                                 !.tried = C.tried, !.sent = C.sent,
                                 !.server = IF ~C.threw THEN <<"error">> ELSE <<>>,
                                 !.threw = C.threw]
    /\ UNCHANGED <<serverVars, connVars, chainVars, serverLog>>
    /\ UNCHANGED <<clientVars, codec>>

\* ------------------------------------------------------------- initial state
ConfiguredBackpressure == {0, 1024}

DefaultMaxBackpressure == 65536

ServerInit ==
    /\ listenSocket = FALSE
    /\ \E configured \in ConfiguredBackpressure :
          maxBackpressure = IF configured # 0 THEN configured ELSE DefaultMaxBackpressure
    /\ middlewares = <<>>
    /\ connections = <<>>
    /\ rooms = <<>>
    /\ created = 0
    /\ wsOpen = [c \in Ids |-> FALSE]
    /\ connRooms = [c \in Ids |-> {}]
    /\ eventHandlers = [c \in Ids |-> NoHandlers]
    /\ listeners = [c \in Ids |-> NoHandlers]
    /\ closeCalls = [c \in Ids |-> 0]
    /\ chain = [c \in Ids |-> "none"]
    /\ mwLog = [c \in Ids |-> <<>>]
    /\ mwDone = [c \in Ids |-> 0]
    /\ serverLog = [c \in Ids |-> <<>>]
    /\ lastOp = NoOp

\* A server, and beside it a client with default options that was not told to
\* connect.
Init == ServerInit /\ ClientConstructed(FALSE, TRUE, 0, 0) /\ codec = NoCodec

\* A client, and beside it a server.
InitClient == ServerInit /\ ClientInit /\ codec = NoCodec

\* ------------------------------------------------------------- specifications
\* The registry and the room directory.
Lifecycle ==
    \/ \E token \in BOOLEAN : Listen(token)
    \/ HandleConnection
    \/ \E id \in Ids : PeerClose(id)
    \/ \E id \in Ids : Disconnect(id)
    \/ Close

Next ==
    \/ Lifecycle
    \/ \E id \in Ids, room \in RoomNames : Join(id, room)
    \/ \E id \in Ids, room \in RoomNames : Leave(id, room)

Spec == Init /\ [][Next]_vars

\* The middleware chain.
NextChain ==
    \/ Lifecycle
    \/ \E m \in MwNames : Use(m)
    \/ \E id \in Ids : ProceedOk(id)
    \/ \E id \in Ids : ProceedErr(id)

SpecChain == Init /\ [][NextChain]_vars

\* Broadcasts over the registry and the rooms.
NextBroadcast ==
    \/ Next
    \/ \E event \in EventInputs, cond \in ChannelConditions : Broadcast(event, cond)
    \/ \E room \in RoomNames, event \in EventInputs, cond \in ChannelConditions :
          BroadcastToRoom(room, event, cond)

SpecBroadcast == Init /\ [][NextBroadcast]_vars

\* One connection's handlers and its own emit.
NextDispatch ==
    \/ Lifecycle
    \/ \E id \in Ids, event \in HandlerEvents, h \in Handlers : On(id, event, h)
    \/ \E id \in Ids, event \in EventInputs : HandleMessage(id, event)
    \/ \E id \in Ids, data \in Undecodable : HandleUndecodable(id, data)
    \/ \E id \in Ids, event \in EventInputs, amount \in BufferedAmounts,
          sendThrows \in BOOLEAN : Emit(id, event, amount, sendThrows)

SpecDispatch == Init /\ [][NextDispatch]_vars

\* The teardown of connections that joined rooms and registered handlers.
NextTeardown ==
    \/ Lifecycle
    \/ \E id \in Ids, room \in RoomNames : Join(id, room)
    \/ \E id \in Ids : On(id, EvChat, "hOk")

SpecTeardown == Init /\ [][NextTeardown]_vars

\* The client and its transport.
NextClient ==
    \/ \E ctorThrows \in BOOLEAN : ClientConnect(ctorThrows)
    \/ ClientDisconnect
    \/ \E event \in ClientEvents : ClientEmit(event)
    \/ \E k \in 1..MaxSockets, listenerEmits \in BOOLEAN : SocketOpens(k, listenerEmits)
    \/ \E k \in 1..MaxSockets : ConnectFails(k)
    \/ \E k \in 1..MaxSockets, code \in CloseCodes : SocketCloses(k, code)
    \/ \E k \in 1..MaxSockets : ConnectTimeout(k)
    \/ \E t \in 1..MaxSockets, ctorThrows \in BOOLEAN : BackoffElapses(t, ctorThrows)

SpecClient == InitClient /\ [][NextClient]_vars

\* ------------------------------------------------------------- claims
\* C1: after any sequence of join, leave, Connection.disconnect, peer close and
\* server close(), a room is present in the directory if and only if it has at
\* least one member: the directory holds no room with an empty member set.
C1_NoEmptyRoom ==
    \A r \in RoomNames :
        (r \in DOMAIN rooms) <=> (\E id \in Ids : r \in DOMAIN rooms /\ Contains(rooms[r], id))

\* The last member of a room has just left it, another room is still there.
C1_Witness ==
    /\ lastOp.op = "leave"
    /\ lastOp.local = <<<<lastOp.conn, "leave">>>>
    /\ lastOp.room \notin DOMAIN rooms
    /\ DOMAIN rooms # {}

\* The registered connections that a broadcast of the last operation addresses:
\* the registry for broadcast, the registered members for broadcastToRoom.
Recipients ==
    IF lastOp.op = "broadcast" THEN Range(connections)
    ELSE IF lastOp.room \in DOMAIN rooms
         THEN Range(rooms[lastOp.room]) \cap Range(connections)
         ELSE {}

\* The recipients whose buffered-byte count is below the configured ceiling.
Eligible == {id \in Recipients : lastOp.buffered[id] < maxBackpressure}

\* C2: broadcastToRoom with a valid event hands the envelope exactly once to each
\* registered member of the room whose buffered-byte count is below
\* maxBackpressure and to no other connection; with no send throwing, and so for
\* an absent or empty room and for member ids no longer registered, it raises no
\* error.
C2_RoomBroadcastExact ==
    (lastOp.op = "broadcastToRoom" /\ isValidEventName(lastOp.event))
        => /\ Range(lastOp.tried) = Eligible
           /\ Len(lastOp.tried) = Cardinality(Eligible)
           /\ lastOp.failing = {} => ~lastOp.threw

\* C3: in broadcast and broadcastToRoom, when channel.send throws for one
\* recipient, the failure is reported for that connection, every other recipient
\* is still sent the message, and the broadcast call does not fail.
C3_SendFailureIsolated ==
    (lastOp.op \in {"broadcast", "broadcastToRoom"} /\ isValidEventName(lastOp.event))
        => /\ \A id \in Eligible \cap lastOp.failing :
                 \E i \in 1..Len(lastOp.errors) : lastOp.errors[i][1] = id
           /\ Eligible \subseteq Range(lastOp.tried)
           /\ ~lastOp.threw

\* C4: a connection whose buffered-byte count is at or above maxBackpressure when
\* a broadcast runs is not sent the message, and the skip is reported as a
\* BackpressureExceeded error (stated here for broadcasts in which no send throws).
C4_BackpressureSkipReported ==
    (/\ lastOp.op \in {"broadcast", "broadcastToRoom"}
     /\ isValidEventName(lastOp.event)
     /\ lastOp.failing = {})
        => \A id \in Recipients \ Eligible :
              /\ ~Contains(lastOp.tried, id)
              /\ Contains(lastOp.errors, <<id, "BackpressureExceeded">>)

\* C5: Connection.emit with a valid event sends the envelope if and only if the
\* channel's buffered-byte count is strictly below the server's configured
\* maxBackpressure; otherwise nothing is sent and a BackpressureExceeded error is
\* emitted on the connection (stated here for a channel whose send does not throw).
C5_EmitHonoursConfiguredCeiling ==
    (lastOp.op = "emit" /\ isValidEventName(lastOp.event) /\ lastOp.failing = {})
        => IF lastOp.buffered[lastOp.conn] < maxBackpressure
           THEN lastOp.sent = <<lastOp.conn>>
           ELSE /\ lastOp.tried = <<>>
                /\ Contains(lastOp.errors, <<lastOp.conn, "BackpressureExceeded">>)

\* C6: once a middleware has called proceed with an error for a connection, the
\* server never emits 'connection' for it, its channel is closed, and the abort
\* reason has been emitted as a server 'error' notification.
C6_AbortClosesAndReports ==
    \A id \in Ids :
        chain[id] = "aborted"
            => /\ ~Contains(serverLog[id], "connection")
               /\ ~wsOpen[id]
               /\ Contains(serverLog[id], "error")

\* The second middleware of the chain has just aborted a connection.
C6_Witness ==
    \E id \in Ids :
        /\ lastOp.op = "abort" /\ lastOp.conn = id
        /\ chain[id] = "aborted"
        /\ mwDone[id] = 1
        /\ lastOp.wsClose = <<id>>

\* C7: for a connection whose middleware chain aborted the server delivers no
\* notification carrying the connection: neither 'connection' nor 'disconnect'.
C7_AbortedNeverExposed ==
    \A id \in Ids :
        chain[id] = "aborted"
            => /\ ~Contains(serverLog[id], "connection")
               /\ ~Contains(serverLog[id], "disconnect")

\* C8: a connection is in the registry (counted by connectionCount, iterated by
\* broadcast) only after its middleware chain completed: not while the chain is
\* pending, and not after it aborted.
C8_RegisteredAfterChain ==
    \A id \in Ids :
        chain[id] \in {"pending", "aborted"} => ~Contains(connections, id)

\* C9: the middlewares invoked for a connection are an initial part of the
\* registered ones, in registration order; each is invoked only after all before
\* it called proceed() without error; after an abort no further one is invoked;
\* and 'connection' is emitted only when every invoked middleware has proceeded,
\* so a connection whose middleware has not called proceed stays unannounced.
C9_ChainInOrder ==
    \A id \in Ids :
        /\ Len(mwLog[id]) <= Len(middlewares)
        /\ mwLog[id] = SubSeq(middlewares, 1, Len(mwLog[id]))
        /\ chain[id] \in {"pending", "aborted"}
               => /\ Len(mwLog[id]) = mwDone[id] + 1
                  /\ ~Contains(serverLog[id], "connection")
        /\ chain[id] = "announced" => Len(mwLog[id]) = mwDone[id]
        /\ Contains(serverLog[id], "connection") => chain[id] = "announced"

\* A connection was announced after two different middlewares ran for it, while
\* another connection is still held by its first middleware.
C9_Witness ==
    \E id, other \in Ids :
        /\ chain[id] = "announced"
        /\ Len(mwLog[id]) = 2 /\ mwLog[id][1] # mwLog[id][2]
        /\ chain[other] = "pending" /\ Len(mwLog[other]) = 1

\* C10: when a connection dispatches an inbound envelope, the handlers registered
\* for its event are invoked in registration order; if one throws, the error is
\* emitted on the connection's emitter, the remaining handlers are still invoked,
\* and the connection stays registered.
C10_AllHandlersInvoked ==
    (lastOp.op = "message" /\ lastOp.conn \in Ids)
        => LET hs == eventHandlers[lastOp.conn][lastOp.event]
           IN /\ Len(lastOp.invoked) >= Len(hs)
              /\ SubSeq(lastOp.invoked, 1, Len(hs)) = hs
              /\ (\E i \in 1..Len(hs) : hs[i] \in ThrowingHandlers)
                     => Contains(lastOp.errors, <<lastOp.conn, "HandlerError">>)
              /\ Contains(connections, lastOp.conn)

\* Connection id is a member of no room of the directory.
InNoRoom(id) == \A r \in DOMAIN rooms : ~Contains(rooms[r], id)

\* C11: Connection.disconnect() may be called any number of times: channel.close
\* is invoked at most once per connection (close() itself does not throw here, so
\* no call of disconnect throws).
C11_CloseAtMostOnce == \A id \in Ids : closeCalls[id] <= 1

\* C12: Connection.disconnect() leaves every joined room, then closes the channel,
\* then emits one local 'disconnect', then removes all handlers; afterwards the
\* connection is a member of no room and has no registered handler.
C12_DisconnectOrder ==
    lastOp.op = "disconnect"
        => LET id == lastOp.conn
           IN /\ lastOp.order = <<"leaveRooms", "close", "disconnect", "removeAllListeners">>
              /\ lastOp.local = <<<<id, "disconnect">>>>
              /\ connRooms[id] = {}
              /\ InNoRoom(id)
              /\ listeners[id] = NoHandlers
              /\ eventHandlers[id] = NoHandlers

\* C13: when the peer closes the transport, the connection is unregistered and
\* removed from all rooms, its local 'disconnect' is delivered to the connection's
\* listeners, and its handlers are cleared.
C13_PeerCloseDestroys ==
    lastOp.op = "peerClose"
        => LET id == lastOp.conn
           IN /\ ~Contains(connections, id)
              /\ InNoRoom(id)
              /\ lastOp.local = <<<<id, "disconnect">>>>
              /\ listeners[id] = NoHandlers
              /\ eventHandlers[id] = NoHandlers

\* The last operation was a transport close with a non-normal code, delivered to
\* the client while reconnection was enabled and its attempts were used up.
AttemptsExhausted ==
    /\ clientOp.op \in {"connectFail", "close"}
    /\ clientOp.handled
    /\ clientOp.code # NormalClosure
    /\ reconnection
    /\ clientOp.attempts = reconnectionAttempts

\* C14: with reconnection enabled and reconnectionAttempts = L, when the last of
\* the attempts has ended in a transport close with a non-normal code, the
\* listeners have been delivered 'reconnecting' 1..L and then exactly one
\* 'reconnect_failed', and the client is disconnected.
C14_ReconnectFailedDelivered ==
    AttemptsExhausted
        => LET L == reconnectionAttempts
           IN /\ Len(notified) >= L
              /\ SubSeq(notified, Len(notified) - L + 1, Len(notified)) = [i \in 1..L |-> i]
              /\ Cardinality({i \in 1..Len(clientOp.local) :
                                  clientOp.local[i] = EvReconnectFailed}) = 1
              /\ ~clientOp.threw
              /\ state = "disconnected"

\* How many times envelope m occurs in the sequence q of envelopes.
Occurrences(q, m) == Cardinality({i \in 1..Len(q) : q[i] = m})

\* The envelopes handed to ws.send(), in order.
SentEnvelopes == [i \in 1..Len(sent) |-> sent[i][2]]

\* C15: every envelope emitted is either still queued or was handed to the
\* transport exactly once, never both and never lost; the queue holds envelopes
\* in the order in which they were emitted; and the transition to connected hands
\* the whole queue, in that order, to the socket that opened and leaves the queue
\* empty.
C15_QueueFlushedInOrder ==
    /\ \A m \in 1..emitted :
          Occurrences(SentEnvelopes, m) + Occurrences(messageQueue, m) = 1
    /\ \A i, j \in 1..Len(messageQueue) : i < j => messageQueue[i] < messageQueue[j]
    /\ (clientOp.op = "open" /\ clientOp.handled)
          => LET first == clientOp.sentBefore + (IF clientOp.event = <<>> THEN 0 ELSE 1)
             IN /\ state = "connected"
                /\ messageQueue = <<>>
                /\ Len(sent) = first + Len(clientOp.queued)
                /\ \A i \in 1..Len(clientOp.queued) :
                       sent[first + i] = <<clientOp.sock, clientOp.queued[i]>>

\* Two envelopes queued across a failed connection attempt have just been flushed.
C15_Witness ==
    /\ clientOp.op = "open" /\ clientOp.handled
    /\ clientOp.queued = <<1, 2>>
    /\ clientOp.sock > 1
    /\ sent = <<<<clientOp.sock, 1>>, <<clientOp.sock, 2>>>>

\* C16: Client.emit with a valid application event name sends the envelope at
\* once, on the client's socket, and leaves the queue unchanged when the state is
\* connected; in every other state it appends the envelope at the tail of the
\* queue and sends nothing.
C16_EmitSendsOrQueues ==
    (clientOp.op = "emit" /\ isValidEventName(clientOp.event))
        => IF clientOp.before = "connected"
           THEN /\ ws # 0
                /\ sent[Len(sent)] = <<ws, emitted>>
                /\ Len(sent) = clientOp.sentBefore + 1
                /\ messageQueue = clientOp.queued
           ELSE /\ messageQueue = Append(clientOp.queued, emitted)
                /\ Len(sent) = clientOp.sentBefore

\* An envelope was emitted while reconnecting, behind one already queued.
C16_Witness ==
    /\ clientOp.op = "emit" /\ isValidEventName(clientOp.event)
    /\ clientOp.before = "reconnecting"
    /\ clientOp.queued = <<1>>
    /\ messageQueue = <<1, 2>>

\* C17: Client.disconnect(), in any state, disables reconnection, closes the
\* client's socket with the normal-closure code and leaves the state
\* disconnected; and once reconnection is disabled no backoff timer is pending,
\* the client is never reconnecting, and no operation but an explicit connect()
\* constructs a socket or takes the client out of disconnected.
C17_DisconnectStopsReconnection ==
    /\ clientOp.op = "disconnect"
          => /\ ~reconnection
             /\ state = "disconnected"
             /\ clientOp.closed = IF ws # 0 THEN <<<<ws, NormalClosure>>>> ELSE <<>>
    /\ ~reconnection
          => /\ \A t \in 1..Len(timers) : ~timers[t].pending
             /\ state # "reconnecting"
             /\ (clientOp.op # "none" /\ Len(socks) > clientOp.made)
                    => clientOp.op = "connect"
             /\ (clientOp.op # "none" /\ clientOp.before = "disconnected"
                                      /\ state # "disconnected")
                    => clientOp.op = "connect"

\* C18: when the transport of a connected client closes, the client becomes
\* reconnecting, with a backoff timer set, if the code is not the normal one,
\* reconnection is enabled and the attempt counter is below the limit; it becomes
\* disconnected, with no timer set, if the code is normal or reconnection is
\* disabled.
C18_CloseWhileConnected ==
    (clientOp.op = "close" /\ clientOp.handled /\ clientOp.before = "connected")
        => /\ (clientOp.code # NormalClosure /\ reconnection
                   /\ clientOp.attempts < reconnectionAttempts)
                 => /\ state = "reconnecting"
                    /\ Len(timers) = clientOp.timersSet + 1
                    /\ timers[Len(timers)].pending
                    /\ reconnectTimer = Len(timers)
           /\ (clientOp.code = NormalClosure \/ ~reconnection)
                 => /\ state = "disconnected"
                    /\ Len(timers) = clientOp.timersSet
                    /\ ws = 0

\* A connected client lost its transport abnormally and is reconnecting; before
\* that, another connection of the same client had been closed normally.
C18_Witness ==
    /\ clientOp.op = "close" /\ clientOp.handled /\ clientOp.before = "connected"
    /\ clientOp.code # NormalClosure
    /\ clientOp.sock = 2
    /\ state = "reconnecting"
    /\ reconnectAttempts = 1

\* The last operation was a connect timeout that found the client's socket still
\* connecting, or the failure of the handshake of the socket of a connecting client.
ConnectingFailed ==
    /\ clientOp.op \in {"timeout", "connectFail"}
    /\ clientOp.handled
    /\ clientOp.before = "connecting"

\* C19: while the client is connecting, a connect timeout or a transport error
\* moves it to disconnected and rejects the promise of the connect() in flight;
\* the client does not remain connecting.
C19_ConnectingFailureDisconnects ==
    ConnectingFailed
        => /\ state = "disconnected"
           /\ socks[clientOp.sock].outcome = "rejected"

ClosedAgain == lastOp.op = "close" /\ lastOp'.op = "close"

\* C21: after close() the server accepts no connection, every channel is closed
\* and the registry and the room directory are empty; a close() that follows a
\* close() raises no error and changes no state.
C21_CloseClearsAndIsIdempotent ==
    /\ [](lastOp.op = "close"
            => /\ ~listenSocket
               /\ ~ENABLED HandleConnection
               /\ \A id \in Ids : ~wsOpen[id]
               /\ connections = <<>>
               /\ rooms = <<>>
               /\ ~lastOp.threw)
    /\ [][ClosedAgain
            => /\ UNCHANGED <<serverVars, connVars, chainVars, serverLog>>
               /\ lastOp'.wsClose = <<>>
               /\ ~lastOp'.threw]_vars

\* close() has just disconnected two registered connections, one of them a member
\* of a room.
C21_Witness ==
    /\ lastOp.op = "close"
    /\ lastOp.wsClose = <<1, 2>>
    /\ lastOp.local = <<<<1, "disconnect">>, <<2, "disconnect">>>>
    /\ closeCalls = [c \in Ids |-> 1]

\* C22: a listen() the transport accepts leaves the server listening, emits
\* 'listening' and resolves; a listen() the transport refuses emits 'error',
\* rejects, and does not make the server listening.
C22_ListenOutcome ==
    /\ [](lastOp.op = "listen"
            => IF lastOp.threw
               THEN lastOp.server = <<"error">>
               ELSE listenSocket /\ lastOp.server = <<"listening">>)
    /\ [][lastOp'.op = "listen" /\ lastOp'.threw
            => listenSocket' = listenSocket]_vars

\* The transport has just refused the bind of a server that was not listening.
C22_Witness ==
    /\ lastOp.op = "listen"
    /\ lastOp.threw
    /\ lastOp.server = <<"error">>
    /\ ~listenSocket

\* The member set of a room of the directory `rms`, empty for a room not in it.
Members(rms, r) == IF r \in DOMAIN rms THEN Range(rms[r]) ELSE {}

\* C23: when the peer closes the channel of a registered connection, the server
\* unregisters it: its id leaves the registry and every room, exactly the rooms
\* with no member left are deleted, and every other registry entry and every
\* other member of every room stays.
C23_UnregisterFrame ==
    [][\A id \in Ids :
        (wsOpen[id] /\ Contains(connections, id)
            /\ lastOp'.op = "peerClose" /\ lastOp'.conn = id)
        => /\ Range(connections') = Range(connections) \ {id}
           /\ \A r \in RoomNames :
                /\ Members(rooms', r) = Members(rooms, r) \ {id}
                /\ r \in DOMAIN rooms' <=> Members(rooms, r) \ {id} # {}]_vars

\* The peer has closed connection 1, which was in both rooms: the room it shared
\* with connection 2 remains with that member, the other room is gone.
C23_Witness ==
    /\ lastOp.op = "peerClose"
    /\ lastOp.conn = 1
    /\ connRooms[1] = RoomNames
    /\ connections = <<2>>
    /\ \E r \in RoomNames : DOMAIN rooms = {r} /\ rooms[r] = <<2>>

\* C24: join(r) on a connection whose room set has r, and leave(r) on one whose
\* room set lacks r, change neither the room set nor the directory and notify
\* nobody; a first join(r) adds the connection to room r and to no other room,
\* emits one local 'join', and sends nothing.
C24_JoinLeaveIdempotent ==
    [][\A id \in Ids, r \in RoomNames :
        /\ (lastOp'.op = "join" /\ lastOp'.conn = id /\ lastOp'.room = r)
            => IF r \in connRooms[id]
               THEN /\ UNCHANGED <<connRooms, rooms>>
                    /\ lastOp'.local = <<>>
               ELSE /\ connRooms' = [connRooms EXCEPT ![id] = @ \cup {r}]
                    /\ Members(rooms', r) = Members(rooms, r) \cup {id}
                    /\ \A q \in RoomNames \ {r} :
                          /\ q \in DOMAIN rooms' <=> q \in DOMAIN rooms
                          /\ Members(rooms', q) = Members(rooms, q)
                    /\ lastOp'.local = <<<<id, "join">>>>
                    /\ lastOp'.sent = <<>>
                    /\ lastOp'.wsClose = <<>>
        /\ (lastOp'.op = "leave" /\ lastOp'.conn = id /\ lastOp'.room = r
                /\ r \notin connRooms[id])
            => /\ UNCHANGED <<connRooms, rooms>>
               /\ lastOp'.local = <<>>]_vars

\* Connection 1, a member of room 1 through an earlier join, has just been asked
\* to join room 1 again.
C24_Witness ==
    /\ lastOp.op = "join"
    /\ lastOp.conn = 1
    /\ lastOp.room = 1
    /\ lastOp.local = <<>>
    /\ 1 \in connRooms[1]
    /\ 1 \in DOMAIN rooms
    /\ Contains(rooms[1], 1)

\* The envelope codec and the validation of event names, as pure functions.
NextCodec ==
    \/ \E message \in Messages : Serialize(message)
    \/ \E data \in Texts : Deserialize(data)
    \/ \E message \in Messages : RoundTrip(message)
    \/ \E name \in NameInputs : IsValidEventName(name)

SpecCodec == Init /\ [][NextCodec]_vars

\* A value JSON can represent: null, a boolean, a finite number, a string, or an
\* array of such values.
RECURSIVE Serializable(_)
Serializable(v) ==
    \/ v.t \in {"null", "boolean", "number", "string"}
    \/ v.t = "array" /\ \A i \in 1..Len(v.v) : Serializable(v.v[i])

\* An envelope with a valid event name, a sequence of serializable values as
\* data, and an id and a timestamp that are absent or of their type.
ValidEnvelope(m) ==
    /\ m.t = "object"
    /\ m.event.t = "string"
    /\ isValidEventName(Chars(m.event))
    /\ m.data.t = "array"
    /\ Serializable(m.data)
    /\ m.id.t \in {"undefined", "string"}
    /\ m.timestamp.t \in {"undefined", "number"}

\* C25 as stated: every valid envelope, serialized and then deserialized, comes
\* back equal to itself.
C25_RoundTripAnySize ==
    (codec.op = "roundTrip" /\ ValidEnvelope(codec.message))
        => codec.result = Returned(codec.message)

\* C25: every valid envelope whose serialized text is at most 1 MiB long,
\* serialized and then deserialized, comes back equal to itself.
C25_RoundTripWithinLimit ==
    (codec.op = "roundTrip" /\ ValidEnvelope(codec.message)
        /\ codec.text.byteLength <= MaxMessageLength)
        => codec.result = Returned(codec.message)

\* A valid envelope with two data values, an id and a timestamp has made the
\* round trip.
C25_Witness ==
    /\ codec.op = "roundTrip"
    /\ codec.message = Message(Str(EvChat), Arr(<<Num(0), Str(<<"a">>)>>),
                               Str(<<"i">>), Num(5))
    /\ codec.text.byteLength <= MaxMessageLength
    /\ codec.result.ok

\* C26: isValidEventName returns false for the empty string, for the strings
\* starting with '$', for those containing a null character and for the six
\* reserved names; it returns true for every other string, and changes nothing.
C26_ValidNamesExact ==
    /\ [](codec.op = "isValidEventName"
            => LET name == codec.name
                   rejected ==
                        \/ name = <<>>
                        \/ Len(name) > 0 /\ Head(name) = "$"
                        \/ "NUL" \in Range(name)
                        \/ name \in {EvConnect, EvDisconnect, EvError, EvConnecting,
                                     EvReconnecting, EvReconnectFailed}
               IN codec.result.ok <=> ~rejected)
    /\ [][codec'.op = "isValidEventName"
            => UNCHANGED <<serverVars, connVars, chainVars, serverLog, lastOp,
                           clientVars>>]_vars

\* isValidEventName has rejected a name that has the sentinel as its first
\* character and is otherwise unremarkable.
C26_Witness ==
    /\ codec.op = "isValidEventName"
    /\ codec.name = <<"$", "a">>
    /\ ~codec.result.ok

\* C27: deserializeMessage fails when the text is longer than 1 MiB in bytes, is
\* not well-formed, has no string as event, or has an event isValidEventName
\* rejects; it accepts every other text.
C27_DecodeRejectsExactly ==
    codec.op = "deserialize"
        => LET data == codec.text
               refused ==
                    \/ data.byteLength > MaxMessageLength
                    \/ ~data.wellFormed
                    \/ data.doc.t # "object"
                    \/ data.doc.event.t # "string"
                    \/ ~isValidEventName(Chars(data.doc.event))
           IN codec.result.ok <=> ~refused

\* C28: a successful deserializeMessage returns as data the array received, or
\* the empty sequence when the document has no data, or the one-element
\* sequence of the bare value received, whatever that value is.
C28_DataNormalised ==
    (codec.op = "deserialize" /\ codec.result.ok)
        => LET received == codec.text.doc.data
           IN codec.result.message.data =
                CASE received.t = "array" -> received
                  [] received.t = "undefined" -> Arr(<<>>)
                  [] OTHER -> Arr(<<received>>)

\* C29: when the server is given a non-empty payload that deserializeMessage
\* refuses, no handler is invoked, the connection stays registered, an 'error'
\* is emitted on the connection and on the server, and the message callback
\* returns without throwing.
C29_DecodeFailureReported ==
    lastOp.op = "undecodable"
        => /\ lastOp.invoked = <<>>
           /\ Contains(connections, lastOp.conn)
           /\ \E i \in 1..Len(lastOp.errors) : lastOp.errors[i][1] = lastOp.conn
           /\ lastOp.server = <<"error">>
           /\ ~lastOp.threw

\* C30: a call of Connection.emit, broadcast or broadcastToRoom with an event
\* name isValidEventName rejects throws and hands nothing to any channel.
C30_InvalidEventNeverSent ==
    (lastOp.op \in {"emit", "broadcast", "broadcastToRoom"}
        /\ ~isValidEventName(lastOp.event))
        => /\ lastOp.threw
           /\ lastOp.tried = <<>>
           /\ lastOp.sent = <<>>

\* A connection broadcasting to its peers.
NextPeers ==
    \/ Lifecycle
    \/ \E id \in Ids, event \in EventInputs, cond \in ChannelConditions :
          ConnectionBroadcast(id, event, cond)

SpecPeers == Init /\ [][NextPeers]_vars

\* C31: a broadcast made on a connection, with a valid event, every channel under
\* the backpressure ceiling and no send failing, reaches every registered
\* connection but the one it was made on.
C31_BroadcastExcludesSender ==
    (lastOp.op = "connection.broadcast" /\ isValidEventName(lastOp.event)
        /\ lastOp.failing = {}
        /\ \A id \in Ids : lastOp.buffered[id] < maxBackpressure)
        => Range(lastOp.sent) = Range(connections) \ {lastOp.conn}

\* C32: when a connection that holds exactly one handler for an event, one that
\* does not throw, dispatches an inbound envelope carrying that event, the
\* handler is invoked exactly once.
C32_HandlerInvokedOnce ==
    (lastOp.op = "message" /\ lastOp.conn \in Ids
        /\ eventHandlers[lastOp.conn][lastOp.event] = <<"hOk">>)
        => Occurrences(lastOp.invoked, "hOk") = 1

\* C33: the close event of a socket that is no longer the client's socket leaves
\* the client's state, its reference to the current socket and that socket's
\* callbacks as they were.
C33_StaleCloseIgnored ==
    [][\A k \in 1..Len(socks) :
        (clientOp'.op = "close" /\ clientOp'.sock = k
            /\ socks[k].ready \in {"OPEN", "CLOSING"} /\ ws # 0 /\ ws # k)
        => /\ state' = state
           /\ ws' = ws
           /\ socks'[ws].handlers = socks[ws].handlers]_vars

\* C34: the server emits 'connection' only for a connection that is registered
\* at that moment, and for no connection does its 'disconnect' come before its
\* 'connection'.
C34_AnnouncedWhileRegistered ==
    \A id \in Ids :
        /\ (lastOp.op = "proceed" /\ lastOp.conn = id /\ chain[id] = "announced")
                => Contains(connections, id)
        /\ \A i, j \in 1..Len(serverLog[id]) :
                (serverLog[id][i] = "disconnect" /\ serverLog[id][j] = "connection")
                    => j < i

\* C35: the envelopes are handed to the transport in the order in which emit
\* was called.
C35_SentInEmitOrder ==
    \A i, j \in 1..Len(sent) : i < j => sent[i][2] < sent[j][2]

\* C36: disconnect() on a client that is already disconnected notifies nobody,
\* and the close event of a socket the client has already left by disconnect()
\* does not notify 'disconnect' a second time.
C36_OneDisconnectPerLoss ==
    /\ (clientOp.op = "disconnect" /\ clientOp.before = "disconnected")
          => ~Contains(clientOp.local, EvDisconnect)
    /\ (clientOp.op = "close" /\ clientOp.handled /\ clientOp.before = "disconnected")
          => ~Contains(clientOp.local, EvDisconnect)

\* C37: every id in the member set of a room of the directory is the id of a
\* registered connection.
C37_MembersRegistered ==
    \A r \in DOMAIN rooms : Range(rooms[r]) \subseteq Range(connections)

\* C38: for every registered connection and every room, the room is in the
\* connection's own room set exactly when the connection's id is in the
\* directory's member set of that room.
C38_RoomSetsAgree ==
    \A id \in Range(connections), r \in RoomNames :
        r \in connRooms[id] <=> id \in Members(rooms, r)

\* Connection 1, registered, has joined both rooms and just left room 1, which
\* connection 2 is still in.
C38_Witness ==
    /\ lastOp.op = "leave" /\ lastOp.conn = 1 /\ lastOp.room = 1
    /\ lastOp.local = <<<<1, "leave">>>>
    /\ Contains(connections, 1)
    /\ connRooms[1] = {2}
    /\ Members(rooms, 1) = {2}
    /\ 1 \in Members(rooms, 2)

\* C39: the reconnect-attempt counter is at least 0 and at most the configured
\* limit, and no 'reconnecting' notification carries an attempt number above the
\* limit.
C39_AttemptsWithinLimit ==
    /\ reconnectAttempts >= 0
    /\ reconnectAttempts <= reconnectionAttempts
    /\ \A i \in 1..Len(notified) : notified[i] <= reconnectionAttempts

\* The last attempt the limit allows has been announced, and the connection it
\* led to has failed.
C39_Witness ==
    /\ reconnectionAttempts = 2
    /\ reconnectAttempts = 2
    /\ notified = <<1, 2>>
    /\ clientOp.op = "connectFail"
    /\ state = "disconnected"

\* A client with reconnection enabled that connects when constructed, facing a
\* server that never completes a handshake: every attempt fails or times out,
\* every backoff timer fires, and the application only emits.
RetryInit ==
    /\ ServerInit
    /\ \E attempts \in ConfiguredAttempts, delay \in ConfiguredDelays :
          ClientConstructed(TRUE, TRUE, attempts, delay)
    /\ codec = NoCodec

NextRetry ==
    \/ \E event \in ClientEvents : ClientEmit(event)
    \/ \E k \in 1..MaxSockets : ConnectFails(k)
    \/ \E k \in 1..MaxSockets : ConnectTimeout(k)
    \/ \E t \in 1..MaxSockets, ctorThrows \in BOOLEAN : BackoffElapses(t, ctorThrows)

SpecRetry ==
    /\ RetryInit
    /\ [][NextRetry]_vars
    /\ WF_vars(\E k \in 1..MaxSockets : ConnectFails(k))
    /\ WF_vars(\E t \in 1..MaxSockets, ctorThrows \in BOOLEAN : BackoffElapses(t, ctorThrows))

\* The client is disconnected, no backoff timer is pending and no socket is
\* still connecting (reconnectTimer keeps the handle of the last timer after it
\* has fired, so the timers themselves are inspected).
Settled ==
    /\ state = "disconnected"
    /\ \A t \in 1..Len(timers) : ~timers[t].pending
    /\ \A k \in 1..Len(socks) : socks[k].ready = "CLOSED"

\* C40: when no attempt ever opens, the client eventually settles for good in
\* disconnected with no backoff timer pending, and it never makes more
\* reconnection attempts than the configured limit after the initial attempt.
C40_RetriesEnd ==
    /\ <>[]Settled
    /\ [](Len(socks) <= reconnectionAttempts + 1)
    /\ [](Len(timers) <= reconnectionAttempts)

\* The client has settled after the initial attempt and two reconnection
\* attempts, the limit being two.
C40_Witness ==
    /\ Settled
    /\ reconnectionAttempts = 2
    /\ Len(socks) = 3
    /\ Len(timers) = 2
    /\ reconnectAttempts = 2

=============================================================================
